---- MODULE Spec2Model ----
(***************************************************************************)
(* Drift-Detection-and-Monitoring: the PSI calculators, the drift          *)
(* classifier and the evaluation paths built on them.                      *)
(*                                                                         *)
(* Numbers.  Observations are small integers.  Proportions, PSI scores and *)
(* logarithms are fixed-point integers in units of 1e-6 ("micro"): the     *)
(* proportion 1/2 is 500000, the threshold 0.25 is 250000, the epsilon     *)
(* 1e-6 is 1.  Bucket edges are exact rationals: a sequence of integers    *)
(* together with the common denominator `scale`.  Ln6 approximates the     *)
(* natural logarithm to within 2e-5.                                       *)
(***************************************************************************)
EXTENDS Integers, Sequences, FiniteSets, TLC

VARIABLES
    ref,        \* reference sample handed to calculate_psi
    cur,        \* current sample handed to calculate_psi
    bins,       \* bucket count handed to calculate_psi
    variant,    \* which calculate_psi was called ("none" before the call)
    res,        \* what the call produced
    status,     \* tier the classifier gave to res ("none" before)
    score,      \* classifier input of the latest get_drift_status call
    tier,       \* its result
    prevScore,  \* classifier input of the call before
    prevTier,   \* its result
    logf,       \* logs/psi_drift_log.csv and the log_psi_result calls made
    flow,       \* one run of flows/psi_drift_detection_flow
    con,        \* a DriftDataConsumer and the thread running its drift check
    prod,       \* a DriftDataProducer inside one send_batch call
    verdict,    \* a score and the verdict one of the scripts printed for it
    life,       \* start and stop of a DriftDataConsumer and of its thread
    kflow,      \* one run of flows/kafka_drift_detection_flow
    retrain,    \* one run of model_retraining_pipeline_flow
    reg,        \* a ModelRegistry directory and the register_model calls
    writers     \* two log_psi_result calls running at the same time

psiVars == <<ref, cur, bins, variant, res, status>>
clsVars == <<score, tier, prevScore, prevTier>>
sysVars == <<logf, flow, con, prod, verdict>>
extVars == <<life, kflow, retrain, reg, writers>>
vars == <<psiVars, clsVars, sysVars, extVars>>

----------------------------------------------------------------------------
(* Bounds of the model *)

MaxVal == 2
MaxRefLen == 3
MaxCurLen == 2
MaxBins == 3
ScoreMargin == 20

(* Program constants *)

PossibleThreshold == 100000
LikelyThreshold == 250000
Eps6 == 1
QcutEps == 100

Million == 1000 * 1000

Values == 0..MaxVal

SeqsUpTo(n) == UNION {[1..k -> Values] : k \in 0..n}

BinsDomain == (0 - 2)..MaxBins

----------------------------------------------------------------------------
(* Fixed-point arithmetic *)

\* a * b / 10^6 for micro-scaled a, b without leaving 32 bits
Mul6(a, b) ==
    LET a1 == a \div 1000
        a0 == a % 1000
        b1 == b \div 1000
        b0 == b % 1000
    IN a1 * b1 + ((a1 * b0 + a0 * b1) \div 1000) + ((a0 * b0) \div Million)

RECURSIVE Log2Floor(_)
Log2Floor(n) == IF n < 2 THEN 0 ELSE 1 + Log2Floor(n \div 2)

RECURSIVE Pow2(_)
Pow2(k) == IF k = 0 THEN 1 ELSE 2 * Pow2(k - 1)

\* np.log of the micro-scaled n >= 1, shifted by ln(10^6): Ln6(p) - Ln6(q)
\* is ln(p/q) in micro units.  ln n = k ln 2 + 2 atanh((m-1)/(m+1)), m = n/2^k.
Ln6(n) ==
    LET k == Log2Floor(n)
        p == Pow2(k)
        num == n - p
        den == n + p
        q1 == (num * 1000) \div den
        r1 == (num * 1000) % den
        z == q1 * 1000 + ((r1 * 1000) \div den)
        z2 == Mul6(z, z)
        z3 == Mul6(z2, z)
        z5 == Mul6(z3, z2)
        z7 == Mul6(z5, z2)
        z9 == Mul6(z7, z2)
        z11 == Mul6(z9, z2)
    IN k * 693147
       + 2 * (z + (z3 \div 3) + (z5 \div 5) + (z7 \div 7) + (z9 \div 9) + (z11 \div 11))

RECURSIVE SumSeq(_)
SumSeq(s) == IF Len(s) = 0 THEN 0 ELSE Head(s) + SumSeq(Tail(s))

SeqMin(s) == CHOOSE x \in {s[i] : i \in DOMAIN s} : \A j \in DOMAIN s : x <= s[j]
SeqMax(s) == CHOOSE x \in {s[i] : i \in DOMAIN s} : \A j \in DOMAIN s : x >= s[j]

----------------------------------------------------------------------------
(* numpy's histogram *)

\* membership of the scaled observation x in bucket i of `edges`: half-open
\* buckets, the last one closed on the right
InBin(x, edges, i) ==
    /\ edges[i] <= x
    /\ IF i = Len(edges) - 1 THEN x <= edges[i + 1] ELSE x < edges[i + 1]

\* HistogramCounts with the last bucket half-open like the others
HistogramCountsLastOpen(a, edges, scale) ==
    IF Len(edges) < 2 THEN << >>
    ELSE [i \in 1..(Len(edges) - 1) |->
            Cardinality({j \in DOMAIN a :
                edges[i] <= a[j] * scale /\ a[j] * scale < edges[i + 1]})]

\* np.histogram(a, bins=<array of edges>)[0]: observations outside
\* [edges[first], edges[last]] are in no bucket; fewer than two edges give
\* an empty histogram
HistogramCounts(a, edges, scale) ==
    IF Len(edges) < 2 THEN << >>
    ELSE [i \in 1..(Len(edges) - 1) |->
            Cardinality({j \in DOMAIN a : InBin(a[j] * scale, edges, i)})]

\* the edges np.histogram(a, bins=<int>) lays out: `n` equal-width buckets
\* over [min, max]; [min - 0.5, max + 0.5] when min = max; [0, 1] for an
\* empty sample.  Edges are scaled by 2n.
UniformEdges(a, n) ==
    LET lo2 == IF Len(a) = 0 THEN 0
               ELSE IF SeqMin(a) = SeqMax(a) THEN 2 * SeqMin(a) - 1
               ELSE 2 * SeqMin(a)
        hi2 == IF Len(a) = 0 THEN 2
               ELSE IF SeqMin(a) = SeqMax(a) THEN 2 * SeqMax(a) + 1
               ELSE 2 * SeqMax(a)
    IN [k \in 1..(n + 1) |-> n * lo2 + (hi2 - lo2) * (k - 1)]

\* np.histogram(a, bins=<int>)[0], the equal-width fast path: the bucket of
\* x is floor((x - first) * n / (last - first)), and x = last goes to the
\* last bucket.  Every observation of `a` lies in [first, last].
UniformCounts(a, n) ==
    LET e == UniformEdges(a, n)
        width == e[2] - e[1]            \* (last - first) * 2n / n
        Index(x) == LET i == (x * 2 * n - e[1]) \div width
                    IN IF i = n THEN n - 1 ELSE i
    IN [i \in 1..n |-> Cardinality({j \in DOMAIN a : Index(a[j]) = i - 1})]

----------------------------------------------------------------------------
(* Results of a calculate_psi call *)

\* kind: "error" (the call raised), "nan" (it returned NaN) or "value" (it
\* returned the score psi, the sum of `terms`); refHist and curHist are the
\* bucket counts it computed, edges / scale the bucket edges, warned whether
\* the degraded-binning warning was printed
ErrorResult ==
    [kind |-> "error", psi |-> 0, terms |-> << >>, refHist |-> << >>,
     curHist |-> << >>, edges |-> << >>, scale |-> 1, warned |-> FALSE]

NanResult(rh, ch, e, sc, w) ==
    [kind |-> "nan", psi |-> 0, terms |-> << >>, refHist |-> rh,
     curHist |-> ch, edges |-> e, scale |-> sc, warned |-> w]

ValueResult(t, rh, ch, e, sc, w) ==
    [kind |-> "value", psi |-> SumSeq(t), terms |-> t, refHist |-> rh,
     curHist |-> ch, edges |-> e, scale |-> sc, warned |-> w]

NoResult ==
    [kind |-> "none", psi |-> 0, terms |-> << >>, refHist |-> << >>,
     curHist |-> << >>, edges |-> << >>, scale |-> 1, warned |-> FALSE]

\* count / len as a micro-scaled proportion
Pct(count, n) == (count * Million) \div n

\* ln(x / y) in micro units for micro-scaled x, y >= 1
LogRatio(x, y) == Ln6(x) - Ln6(y)

\* PsiAdditive with the ratio under the logarithm inverted
PsiAdditiveRatioInverted(rh, ch, nr, nc, eps) ==
    [i \in DOMAIN rh |->
        Mul6(Pct(rh[i], nr) - Pct(ch[i], nc),
             LogRatio(Pct(ch[i], nc) + eps, Pct(rh[i], nr) + eps))]

\* the terms of
\* np.sum((ref_perc - prod_perc) * np.log((ref_perc + eps) / (prod_perc + eps)))
PsiAdditive(rh, ch, nr, nc, eps) ==
    [i \in DOMAIN rh |->
        Mul6(Pct(rh[i], nr) - Pct(ch[i], nc),
             LogRatio(Pct(rh[i], nr) + eps, Pct(ch[i], nc) + eps))]

\* np.where(pct == 0, eps, pct)
ReplaceZero(pct, eps) == IF pct = 0 THEN eps ELSE pct

\* the terms of np.sum((e - a) * np.log(e / a)) over the zero-replaced
\* proportions
PsiReplaced(rh, ch, nr, nc, eps) ==
    [i \in DOMAIN rh |->
        LET e == ReplaceZero(Pct(rh[i], nr), eps)
            a == ReplaceZero(Pct(ch[i], nc), eps)
        IN Mul6(e - a, LogRatio(e, a))]

----------------------------------------------------------------------------
(* src/detection/psi.py: equal-width buckets, no input check *)

CalculatePsiDetection(r, p, b) ==
    IF b < 1 THEN ErrorResult       \* np.histogram: `bins` must be positive
    ELSE LET edges == UniformEdges(r, b)
             scale == 2 * b
             rh == UniformCounts(r, b)
             ch == HistogramCounts(p, edges, scale)
         IN IF Len(r) = 0 \/ Len(p) = 0
            THEN NanResult(rh, ch, edges, scale, FALSE)   \* 0 / 0 in the proportions
            ELSE ValueResult(PsiAdditive(rh, ch, Len(r), Len(p), Eps6),
                             rh, ch, edges, scale, FALSE)

(* flows/psi_drift_detection_flow.py: the same, behind an emptiness check *)

CalculatePsiFlow(r, p, b) ==
    IF Len(r) = 0 \/ Len(p) = 0 THEN ErrorResult   \* ValueError("Input arrays must not be empty.")
    ELSE IF b < 1 THEN ErrorResult
    ELSE LET edges == UniformEdges(r, b)
             scale == 2 * b
             rh == UniformCounts(r, b)
             ch == HistogramCounts(p, edges, scale)
         IN ValueResult(PsiAdditive(rh, ch, Len(r), Len(p), Eps6),
                        rh, ch, edges, scale, FALSE)

----------------------------------------------------------------------------
(* src/drift/psi_calculator.py: quantile buckets with deduplicated edges *)

SortAsc(s) == SortSeq(s, LAMBDA x, y : x < y)

\* np.percentile(expected, np.linspace(0, 100, b + 1)) for a non-empty
\* sample, linear interpolation, scaled by max(b, 1): the k-th point lies at
\* position (n - 1) k / b of the sorted sample
Percentiles(expected, b) ==
    LET s == SortAsc(expected)
        n == Len(s)
    IN IF b = 0 THEN << s[1] >>
       ELSE [k1 \in 1..(b + 1) |->
               LET pos == (n - 1) * (k1 - 1)
                   f == pos \div b
                   frac == pos % b
               IN IF frac = 0 THEN s[f + 1] * b
                  ELSE s[f + 1] * b + frac * (s[f + 2] - s[f + 1])]

\* Unique without the deduplication
UniqueKeepsDuplicates(s) == s

\* np.unique of a non-decreasing sequence
RECURSIVE Unique(_)
Unique(s) ==
    IF Len(s) < 2 THEN s
    ELSE IF s[1] = s[2] THEN Unique(Tail(s))
    ELSE << s[1] >> \o Unique(Tail(s))

\* whether "[Warning] Not enough unique breakpoints" is printed
DegradedWarning(breakpoints, b) == Len(breakpoints) - 1 < b

\* the outcomes of calculate_psi(expected, actual, b).  np.percentile of an
\* empty sample raises or yields NaN depending on the numpy release: both
\* outcomes are kept.
CalculatePsiQuantile(r, p, b) ==
    IF b < 0 - 1 THEN {ErrorResult}            \* np.linspace: negative number of samples
    ELSE IF Len(r) = 0
    THEN {ErrorResult, NanResult(<< >>, << >>, << >>, 1, FALSE)}
    ELSE LET scale == IF b < 1 THEN 1 ELSE b
             breakpoints == Unique(Percentiles(r, b))
             w == DegradedWarning(breakpoints, b)
             rh == HistogramCounts(r, breakpoints, scale)
             ch == HistogramCounts(p, breakpoints, scale)
         IN IF Len(p) = 0 /\ Len(breakpoints) >= 2
            THEN {NanResult(rh, ch, breakpoints, scale, w)}
            ELSE {ValueResult(PsiReplaced(rh, ch, Len(r), IF Len(p) = 0 THEN 1 ELSE Len(p), Eps6),
                              rh, ch, breakpoints, scale, w)}

----------------------------------------------------------------------------
(* src/psi_drift/compute_psi.py: each sample bucketed by its own ranks *)

\* data.rank(method="first")
RankFirst(s) ==
    [i \in DOMAIN s |->
        1 + Cardinality({j \in DOMAIN s : s[j] < s[i]})
          + Cardinality({j \in DOMAIN s : j < i /\ s[j] = s[i]})]

\* pd.qcut(ranks, q, labels=False) of the ranks 1..n: the edges are
\* 1 + (n - 1) k / q, buckets are closed on the right, the lowest edge is
\* included in bucket 0
QcutLabel(rank, n, q) ==
    IF n = 1 THEN 0
    ELSE LET c == ((rank - 1) * q + (n - 2)) \div (n - 1)
         IN IF c = 0 THEN 0 ELSE c - 1

ScaleRange(data, q) == [i \in DOMAIN data |-> QcutLabel(RankFirst(data)[i], Len(data), q)]

LabelCounts(labels, q) ==
    [i \in 1..q |-> Cardinality({j \in DOMAIN labels : labels[j] = i - 1})]

\* the outcomes of calculate_psi(expected, actual, b).  For an empty sample
\* or b < 1 the outcome rests on pandas' handling of degenerate quantiles,
\* which differs between releases: every outcome is kept.
CalculatePsiQcut(r, p, b) ==
    IF Len(r) = 0 \/ Len(p) = 0 \/ b < 1
    THEN {ErrorResult, NanResult(<< >>, << >>, << >>, 1, FALSE),
          ValueResult(<< >>, << >>, << >>, << >>, 1, FALSE)}
    ELSE IF (Len(r) = 1 \/ Len(p) = 1) /\ b > 1
    THEN {ErrorResult}              \* qcut: "Bin edges must be unique"
    ELSE LET rh == LabelCounts(ScaleRange(r, b), b)
             ch == LabelCounts(ScaleRange(p, b), b)
         IN {ValueResult(PsiReplaced(rh, ch, Len(r), Len(p), QcutEps),
                         rh, ch, << >>, 1, FALSE)}

----------------------------------------------------------------------------
(* The drift classifier *)

\* GetDriftStatus with the boundaries closed on the upper side of each tier
GetDriftStatusUpperClosed(psi) ==
    IF psi <= PossibleThreshold THEN "No Drift"
    ELSE IF psi <= LikelyThreshold THEN "Possible Drift"
    ELSE "Likely Drift"

\* get_drift_status(psi) for a micro-scaled psi
GetDriftStatus(psi) ==
    IF psi < PossibleThreshold THEN "No Drift"
    ELSE IF psi < LikelyThreshold THEN "Possible Drift"
    ELSE "Likely Drift"

\* get_drift_status of what a call returned: NaN compares false with both
\* thresholds and so falls through to the last branch
StatusOfResult(r) ==
    IF r.kind = "nan" THEN "Likely Drift" ELSE GetDriftStatus(r.psi)

----------------------------------------------------------------------------
(* Specification of one evaluation: a calculate_psi call, then the tier *)

NoScore == 0 - Million

InitPsi ==
    /\ ref \in SeqsUpTo(MaxRefLen)
    /\ cur \in SeqsUpTo(MaxCurLen)
    /\ bins \in BinsDomain
    /\ variant = "none"
    /\ res = NoResult
    /\ status = "none"

InitIdleClassifier ==
    /\ score = NoScore
    /\ tier = "none"
    /\ prevScore = NoScore
    /\ prevTier = "none"

\* a part of the system that takes no step in the specification at hand
Idle == [pc |-> "idle"]

InitIdleLog == logf = Idle

InitIdleFlow == flow = Idle

InitIdleConsumer == con = Idle

InitIdleProducer == prod = Idle

InitIdleVerdict == verdict = Idle

InitIdleExt ==
    /\ life = Idle
    /\ kflow = Idle
    /\ retrain = Idle
    /\ reg = Idle
    /\ writers = Idle

InitIdleSystem ==
    /\ InitIdleExt
    /\ InitIdleLog
    /\ InitIdleFlow
    /\ InitIdleConsumer
    /\ InitIdleProducer
    /\ InitIdleVerdict

Init == InitPsi /\ InitIdleClassifier /\ InitIdleSystem

CallDetection ==
    /\ variant = "none"
    /\ variant' = "detection"
    /\ res' = CalculatePsiDetection(ref, cur, bins)
    /\ UNCHANGED <<ref, cur, bins, status, clsVars, sysVars, extVars>>

CallFlow ==
    /\ variant = "none"
    /\ variant' = "flow"
    /\ res' = CalculatePsiFlow(ref, cur, bins)
    /\ UNCHANGED <<ref, cur, bins, status, clsVars, sysVars, extVars>>

CallQuantile ==
    /\ variant = "none"
    /\ variant' = "quantile"
    /\ res' \in CalculatePsiQuantile(ref, cur, bins)
    /\ UNCHANGED <<ref, cur, bins, status, clsVars, sysVars, extVars>>

CallQcut ==
    /\ variant = "none"
    /\ variant' = "qcut"
    /\ res' \in CalculatePsiQcut(ref, cur, bins)
    /\ UNCHANGED <<ref, cur, bins, status, clsVars, sysVars, extVars>>

\* status = get_drift_status(psi) on the score the call returned
Classify ==
    /\ variant # "none"
    /\ res.kind \in {"value", "nan"}
    /\ status = "none"
    /\ status' = StatusOfResult(res)
    /\ UNCHANGED <<ref, cur, bins, variant, res, clsVars, sysVars, extVars>>

Next == CallDetection \/ CallFlow \/ CallQuantile \/ CallQcut \/ Classify

Spec == Init /\ [][Next]_vars

----------------------------------------------------------------------------
(* Specification of the classifier alone: get_drift_status called on       *)
(* scores around 0 and around both thresholds, the previous call kept      *)

ScoreInputs ==
    ((0 - ScoreMargin)..ScoreMargin)
    \cup ((PossibleThreshold - ScoreMargin)..(PossibleThreshold + ScoreMargin))
    \cup ((LikelyThreshold - ScoreMargin)..(LikelyThreshold + ScoreMargin))

InitIdlePsi ==
    /\ ref = << >>
    /\ cur = << >>
    /\ bins = 1
    /\ variant = "idle"
    /\ res = NoResult
    /\ status = "none"

InitStatus == InitIdlePsi /\ InitIdleClassifier /\ InitIdleSystem

CallGetDriftStatus ==
    \E p \in ScoreInputs :
        /\ prevScore' = score
        /\ prevTier' = tier
        /\ score' = p
        /\ tier' = GetDriftStatus(p)
        /\ UNCHANGED <<psiVars, sysVars, extVars>>

NextStatus == CallGetDriftStatus

SpecStatus == InitStatus /\ [][NextStatus]_vars

----------------------------------------------------------------------------
(* The evaluation log: log_psi_result of flows/psi_drift_detection_flow   *)
(* and of src/utils/logger, both writing logs/psi_drift_log.csv            *)

MaxLogCalls == 3
MaxOffset == 2

\* round(psi, 4) keeps multiples of 1e-4, which is 100 micro
RoundUnit == 100

\* round(psi, 4): the nearest multiple of 1e-4.  A score written with five
\* decimals and ending in 5 is not exactly a binary float, so which
\* neighbour it rounds to depends on its binary expansion: both can happen.
Round4(psi) ==
    LET lo == (psi \div RoundUnit) * RoundUnit
        r == psi - lo
    IN  IF 2 * r < RoundUnit THEN {lo}
        ELSE IF 2 * r > RoundUnit THEN {lo + RoundUnit}
        ELSE {lo, lo + RoundUnit}

\* the header line pandas writes from the DataFrame's column names
Header ==
    [kind |-> "header", timestamp |-> "timestamp", psi_score |-> "psi_score",
     drift_status |-> "drift_status"]

\* new_row: the time of the call, the rounded score, the tier
NewRow(now, psi4, st) ==
    [kind |-> "row", timestamp |-> now, psi_score |-> psi4, drift_status |-> st]

NoFile == [exists |-> FALSE, lines |-> << >>]

\* every call truncates the file and writes the header again
WriteCsvTruncating(file, row) ==
    [exists |-> TRUE, lines |-> <<Header, row>>]

\* if not os.path.exists(LOG_PATH): to_csv(LOG_PATH)  -- header and row
\* else: to_csv(LOG_PATH, mode='a', header=False)     -- the row alone
WriteCsv(file, row) ==
    IF ~file.exists
    THEN [exists |-> TRUE, lines |-> <<Header, row>>]
    ELSE [exists |-> TRUE, lines |-> Append(file.lines, row)]

\* the scores logged: around both thresholds, in quarters of 1e-4
LogScores ==
    {t + (RoundUnit \div 4) * k :
        t \in {PossibleThreshold, LikelyThreshold},
        k \in (0 - MaxOffset)..MaxOffset}

\* the wall clock read by datetime.now(): one tick per call
Now(calls) == Len(calls) + 1

\* one log_psi_result call that returns: psi4 is what round(psi, 4) gave
LogPsiResult(l, via, psi, st, psi4) ==
    [pc |-> "log",
     file |-> WriteCsv(l.file, NewRow(Now(l.calls), psi4, st)),
     calls |-> Append(l.calls, [via |-> via, psi |-> psi, status |-> st])]

InitLog == logf = [pc |-> "log", file |-> NoFile, calls |-> << >>]

\* flows/psi_drift_detection_flow.log_psi_result(psi, status): the caller
\* hands over the tier it computed
FlowLogPsiResult ==
    /\ Len(logf.calls) < MaxLogCalls
    /\ \E psi \in LogScores : \E psi4 \in Round4(psi) :
        logf' = LogPsiResult(logf, "flow", psi, GetDriftStatus(psi), psi4)
    /\ UNCHANGED <<psiVars, clsVars, flow, con, prod, verdict, extVars>>

\* src/utils/logger.log_psi_result(psi): the tier is computed inside, on the
\* score as given
LoggerLogPsiResult ==
    /\ Len(logf.calls) < MaxLogCalls
    /\ \E psi \in LogScores : \E psi4 \in Round4(psi) :
        logf' = LogPsiResult(logf, "logger", psi, GetDriftStatus(psi), psi4)
    /\ UNCHANGED <<psiVars, clsVars, flow, con, prod, verdict, extVars>>

NextLog == FlowLogPsiResult \/ LoggerLogPsiResult

InitLogAlone ==
    /\ InitIdleExt
    /\ InitIdlePsi /\ InitIdleClassifier
    /\ InitLog /\ InitIdleFlow /\ InitIdleConsumer /\ InitIdleProducer
    /\ InitIdleVerdict

SpecLog == InitLogAlone /\ [][NextLog]_vars

----------------------------------------------------------------------------
(* One run of flows/psi_drift_detection_flow.psi_drift_detection_flow      *)

\* what requests.post can do: answer 200, answer another status, raise
TransportOutcomes == {"ok", "http_error", "exception"}

\* what writing the log can do: return, or raise (directory or file not
\* writable, disk full)
WriteOutcomes == {"ok", "raise"}

\* send_slack_alert without its try/except around requests.post
SendSlackAlertUncaught(st, outcome) ==
    IF st = "No Drift"
    THEN [posts |-> 0, raised |-> FALSE, printed |-> "none"]
    ELSE [posts |-> 1, raised |-> outcome = "exception", printed |-> "none"]

\* send_slack_alert(psi, status): nothing for "No Drift"; SLACK_WEBHOOK_URL
\* is never empty (os.getenv(...) or the built-in URL); otherwise one
\* requests.post inside try, a status other than 200 and any exception only
\* printed
SendSlackAlert(st, outcome) ==
    IF st = "No Drift"
    THEN [posts |-> 0, raised |-> FALSE, printed |-> "none"]
    ELSE [posts |-> 1, raised |-> FALSE,
          printed |-> CASE outcome = "ok" -> "none"
                        [] outcome = "http_error" -> "Slack error"
                        [] outcome = "exception" -> "Slack alert failed"]

\* the scores generate_data and calculate_psi can lead to
FlowScores == ScoreInputs

InitFlow ==
    flow = [pc |-> "start", psi |-> NoScore, status |-> "none",
            metric |-> FALSE, posts |-> 0, transport |-> "none",
            printed |-> "none", raised |-> "none"]

\* ref_data, prod_data = generate_data(); psi = calculate_psi(...);
\* status = get_drift_status(psi)
FlowCalculate ==
    /\ flow.pc = "start"
    /\ \E psi \in FlowScores :
        flow' = [flow EXCEPT !.psi = psi, !.status = GetDriftStatus(psi),
                             !.pc = "log"]
    /\ UNCHANGED <<psiVars, clsVars, logf, con, prod, verdict, extVars>>

\* log_psi_result(psi, status), called without try/except: when it raises
\* the exception leaves the flow
FlowLog ==
    /\ flow.pc = "log"
    /\ \E w \in WriteOutcomes :
        IF w = "ok"
        THEN /\ \E psi4 \in Round4(flow.psi) :
                  logf' = LogPsiResult(logf, "flow", flow.psi, flow.status,
                                       psi4)
             /\ flow' = [flow EXCEPT !.pc = "metrics"]
        ELSE /\ logf' = logf
             /\ flow' = [flow EXCEPT !.pc = "aborted",
                                     !.raised = "log_psi_result"]
    /\ UNCHANGED <<psiVars, clsVars, con, prod, verdict, extVars>>

\* psi_metric.set(psi); drift_status_metric.set(...)
FlowMetrics ==
    /\ flow.pc = "metrics"
    /\ flow' = [flow EXCEPT !.metric = TRUE, !.pc = "alert"]
    /\ UNCHANGED <<psiVars, clsVars, logf, con, prod, verdict, extVars>>

\* send_slack_alert(psi, status), the last statement of the flow
FlowAlert ==
    /\ flow.pc = "alert"
    /\ \E t \in TransportOutcomes :
        LET r == SendSlackAlert(flow.status, t)
        IN  flow' = [flow EXCEPT
                        !.posts = @ + r.posts,
                        !.transport = IF r.posts > 0 THEN t ELSE "none",
                        !.printed = r.printed,
                        !.raised = IF r.raised THEN "send_slack_alert"
                                   ELSE "none",
                        !.pc = IF r.raised THEN "aborted" ELSE "done"]
    /\ UNCHANGED <<psiVars, clsVars, logf, con, prod, verdict, extVars>>

NextFlow == FlowCalculate \/ FlowLog \/ FlowMetrics \/ FlowAlert

InitFlowRun ==
    /\ InitIdleExt
    /\ InitIdlePsi /\ InitIdleClassifier
    /\ InitLog /\ InitFlow /\ InitIdleConsumer /\ InitIdleProducer
    /\ InitIdleVerdict

SpecFlow == InitFlowRun /\ [][NextFlow]_vars

----------------------------------------------------------------------------
(* DriftDataConsumer: the sliding window, the message counter and the      *)
(* drift check, run by the consuming thread while another thread may       *)
(* append to the window                                                    *)

MaxMessages == 102
MaxOtherAppends == 2
MaxSmall == 3

\* if len(self.current_window) < 100
MinSamples == 100

\* feature_cols = [f'feature{i}' for i in range(1, 6)]
NumFeatures == 5

WindowSizes == {1, MaxSmall, MinSamples - 1, MinSamples, MinSamples + 1}

CheckIntervals == {1, MaxSmall, MinSamples \div 2, MinSamples}

\* avg_psi of an evaluation: one score of each tier
ConsumerScores == {0, PossibleThreshold, LikelyThreshold}

\* what one calculate_psi call on a feature column can do
ComputeOutcomes == {"ok", "raise"}

\* a bounded container that refuses the new item when it is full
DequeAppendDropNewest(w, x, maxlen) ==
    IF Len(w) >= maxlen THEN w ELSE Append(w, x)

\* deque(maxlen=window_size).append(x): when the deque is full the item at
\* the left end is discarded
DequeAppend(w, x, maxlen) ==
    IF maxlen = 0 THEN << >>
    ELSE IF Len(w) >= maxlen THEN Append(Tail(w), x)
    ELSE Append(w, x)

\* the frame a PSI computation reads, were it a view of the live window
CurrentFrameLive(snap, live) == live

\* current_df = pd.DataFrame(list(self.current_window)): the frame the PSI
\* computations read is built from the copy made at that point
CurrentFrame(snap, live) == snap

\* DRIFT_CONFIG['min_samples'] as the environment can set it
ConfiguredMinSamples == {MaxSmall, MinSamples}

\* a minimum taken from the configuration
MinimumWindowConfigured(minSamples) == minSamples

\* the minimum _check_drift applies: the literal 100, whatever
\* DRIFT_CONFIG['min_samples'] says
MinimumWindow(minSamples) == MinSamples

\* an exception raised after the append and before the count
ProcessFailureAfterAppend(c) ==
    [c EXCEPT !.window = Append(@, c.arrived + 1), !.arrived = @ + 1,
              !.lastOk = FALSE, !.checked = "none", !.warned = FALSE]

\* _process_message on a message whose value has no get(): the exception
\* is raised at line 109, before the append, and logged at line 123
ProcessFailure(c) ==
    [c EXCEPT !.lastOk = FALSE, !.checked = "none", !.warned = FALSE]

\* a check after every message, whatever check_interval says
CheckDueAlways(n, ci) == TRUE

\* if self.message_count % self.check_interval == 0
CheckDue(n, ci) == n % ci = 0

\* observations are numbered in the order in which they reach the window
InitConsumer ==
    \E ws \in WindowSizes : \E ci \in CheckIntervals :
      \E ms \in ConfiguredMinSamples :
        con = [pc |-> "recv", windowSize |-> ws, checkInterval |-> ci,
               minSamples |-> ms, everFailed |-> FALSE,
               window |-> << >>, messageCount |-> 0, arrived |-> 0,
               others |-> 0, lastOk |-> FALSE, checked |-> "none",
               col |-> 0, snap |-> << >>, atSnap |-> << >>, used |-> << >>,
               gauge |-> NoScore, warned |-> FALSE]

\* _process_message on a message whose value is a dict: append, count, and
\* enter _check_drift when the count is a multiple of check_interval
ProcessMessage ==
    /\ con.pc = "recv"
    /\ con.messageCount < MaxMessages
    /\ LET n == con.messageCount + 1
       IN  con' = [con EXCEPT
                !.window = DequeAppend(@, con.arrived + 1, con.windowSize),
                !.arrived = @ + 1,
                !.messageCount = n,
                !.lastOk = TRUE,
                !.checked = "none",
                !.warned = FALSE,
                !.pc = IF CheckDue(n, con.checkInterval) THEN "check_len"
                       ELSE "recv"]
    /\ UNCHANGED <<psiVars, clsVars, logf, flow, prod, verdict, extVars>>

\* _process_message on a message whose value has no get(): the exception is
\* raised before the append and logged
ProcessMalformed ==
    /\ con.pc = "recv"
    /\ con' = ProcessFailure(con)
    /\ UNCHANGED <<psiVars, clsVars, logf, flow, prod, verdict, extVars>>

\* _check_drift: if len(self.current_window) < 100: return
CheckLen ==
    /\ con.pc = "check_len"
    /\ con' = IF Len(con.window) < MinimumWindow(con.minSamples)
              THEN [con EXCEPT !.pc = "recv", !.checked = "skipped"]
              ELSE [con EXCEPT !.pc = "snapshot"]
    /\ UNCHANGED <<psiVars, clsVars, logf, flow, prod, verdict, extVars>>

\* current_df = pd.DataFrame(list(self.current_window)); list(deque) runs
\* without releasing the interpreter lock, so the copy is taken in one step
Snapshot ==
    /\ con.pc = "snapshot"
    /\ con' = [con EXCEPT !.snap = con.window, !.atSnap = con.window,
                          !.col = 1, !.pc = "compute"]
    /\ UNCHANGED <<psiVars, clsVars, logf, flow, prod, verdict, extVars>>

\* the end of a drift check: its locals are gone
EndCheck(c, how) ==
    [c EXCEPT !.pc = "recv", !.checked = how, !.col = 0, !.snap = << >>,
              !.atSnap = << >>, !.used = << >>,
              !.everFailed = @ \/ how = "failed"]

\* one turn of the loop over feature_cols: calculate_psi on a column of
\* current_df; an exception ends the check in the except clause
ComputeFeature ==
    /\ con.pc = "compute"
    /\ \E o \in ComputeOutcomes :
        LET c == [con EXCEPT !.used = CurrentFrame(con.snap, con.window)]
        IN  con' = IF o = "raise" THEN EndCheck(c, "failed")
                   ELSE IF con.col < NumFeatures
                        THEN [c EXCEPT !.col = @ + 1]
                        ELSE [c EXCEPT !.pc = "finish"]
    /\ UNCHANGED <<psiVars, clsVars, logf, flow, prod, verdict, extVars>>

\* avg_psi, status, the two metrics, log_psi_result(avg_psi), the warning
\* for a tier other than "No Drift"; an exception of log_psi_result is
\* caught after the metrics were set
FinishCheck ==
    /\ con.pc = "finish"
    /\ \E psi \in ConsumerScores : \E w \in WriteOutcomes :
        IF w = "ok"
        THEN /\ \E psi4 \in Round4(psi) :
                  logf' = LogPsiResult(logf, "logger", psi,
                                       GetDriftStatus(psi), psi4)
             /\ con' = [EndCheck(con, "evaluated") EXCEPT
                            !.gauge = psi,
                            !.warned = GetDriftStatus(psi) # "No Drift"]
        ELSE /\ logf' = logf
             /\ con' = [EndCheck(con, "failed") EXCEPT !.gauge = psi]
    /\ UNCHANGED <<psiVars, clsVars, flow, prod, verdict, extVars>>

\* another thread appends an observation to current_window
OtherAppend ==
    /\ con.others < MaxOtherAppends
    /\ con' = [con EXCEPT
                !.window = DequeAppend(@, con.arrived + 1, con.windowSize),
                !.arrived = @ + 1,
                !.others = @ + 1]
    /\ UNCHANGED <<psiVars, clsVars, logf, flow, prod, verdict, extVars>>

NextConsumer ==
    \/ ProcessMessage
    \/ ProcessMalformed
    \/ CheckLen
    \/ Snapshot
    \/ ComputeFeature
    \/ FinishCheck
    \/ OtherAppend

InitConsumerRun ==
    /\ InitIdleExt
    /\ InitIdlePsi /\ InitIdleClassifier
    /\ InitLog /\ InitIdleFlow /\ InitConsumer /\ InitIdleProducer
    /\ InitIdleVerdict

SpecConsumer == InitConsumerRun /\ [][NextConsumer]_vars

----------------------------------------------------------------------------
(* DriftDataProducer: one send_batch call over a batch of rows             *)

MaxBatch == 3

\* what sending one row can do: the broker acknowledges it, producer.send
\* raises, or future.get(timeout=10) raises
SendOutcomes == {"ack", "send_raises", "get_raises"}

\* a send_data_point that reports success as soon as the record is handed
\* to the client, without waiting for the acknowledgement
SendDataPointNoWait(connected, outcome) ==
    connected /\ outcome # "send_raises"

\* send_data_point: False without a producer; True after future.get
\* returned; False from the except clause
SendDataPoint(connected, outcome) ==
    IF ~connected THEN FALSE
    ELSE outcome = "ack"

Batches == UNION {[1..k -> SendOutcomes] : k \in 0..MaxBatch}

\* self.producer is set by _connect, which raises when it fails; it is
\* falsy only if the attribute was cleared afterwards
InitProducer ==
    \E c \in BOOLEAN : \E b \in Batches :
        prod = [pc |-> "call", connected |-> c, rows |-> b, idx |-> 0,
                success |-> 0, total |-> 0, results |-> << >>,
                returned |-> << >>]

\* success_count = 0; total_count = len(data_batch)
SendBatchStart ==
    /\ prod.pc = "call"
    /\ prod' = [prod EXCEPT !.pc = "loop", !.success = 0,
                            !.total = Len(prod.rows)]
    /\ UNCHANGED <<psiVars, clsVars, logf, flow, con, verdict, extVars>>

\* one turn of the loop over data_batch.iterrows()
SendRow ==
    /\ prod.pc = "loop"
    /\ prod.idx < Len(prod.rows)
    /\ LET sent == SendDataPoint(prod.connected, prod.rows[prod.idx + 1])
       IN  prod' = [prod EXCEPT
                        !.idx = @ + 1,
                        !.results = Append(@, sent),
                        !.success = IF sent THEN @ + 1 ELSE @]
    /\ UNCHANGED <<psiVars, clsVars, logf, flow, con, verdict, extVars>>

\* return success_count, total_count
SendBatchReturn ==
    /\ prod.pc = "loop"
    /\ prod.idx = Len(prod.rows)
    /\ prod' = [prod EXCEPT !.pc = "done",
                            !.returned = <<prod.success, prod.total>>]
    /\ UNCHANGED <<psiVars, clsVars, logf, flow, con, verdict, extVars>>

NextProducer == SendBatchStart \/ SendRow \/ SendBatchReturn

InitProducerRun ==
    /\ InitIdleExt
    /\ InitIdlePsi /\ InitIdleClassifier
    /\ InitIdleLog /\ InitIdleFlow /\ InitIdleConsumer /\ InitProducer
    /\ InitIdleVerdict

SpecProducer == InitProducerRun /\ [][NextProducer]_vars

----------------------------------------------------------------------------
(* The scripts that print a verdict for a PSI score                        *)

\* if psi_score > 0.2 of run_drift_check
RunDriftThreshold == 200000

\* root psi_drift_detection_flow: > 0.25 significant, > 0.1 moderate
RootFlowVerdict(psi) ==
    IF psi > LikelyThreshold THEN "Significant"
    ELSE IF psi > PossibleThreshold THEN "Moderate"
    ELSE "No significant drift"

\* run_psi_check: < 0.1 none, < 0.25 moderate, else significant
RunPsiCheckVerdict(psi) ==
    IF psi < PossibleThreshold THEN "No significant drift"
    ELSE IF psi < LikelyThreshold THEN "Moderate"
    ELSE "Significant"

\* run_drift_check: > 0.2 drift detected, else none
RunDriftCheckVerdict(psi) ==
    IF psi > RunDriftThreshold THEN "Drift detected"
    ELSE "No significant drift"

VerdictScores ==
    ScoreInputs
    \cup ((RunDriftThreshold - ScoreMargin)..(RunDriftThreshold + ScoreMargin))

InitVerdict ==
    \E psi \in VerdictScores :
        verdict = [pc |-> "score", psi |-> psi, place |-> "none",
                   printed |-> "none"]

RunRootFlow ==
    /\ verdict.pc = "score"
    /\ verdict' = [verdict EXCEPT !.pc = "printed",
                        !.place = "psi_drift_detection_flow",
                        !.printed = RootFlowVerdict(verdict.psi)]
    /\ UNCHANGED <<psiVars, clsVars, logf, flow, con, prod, extVars>>

RunPsiCheck ==
    /\ verdict.pc = "score"
    /\ verdict' = [verdict EXCEPT !.pc = "printed",
                        !.place = "run_psi_check",
                        !.printed = RunPsiCheckVerdict(verdict.psi)]
    /\ UNCHANGED <<psiVars, clsVars, logf, flow, con, prod, extVars>>

RunDriftCheck ==
    /\ verdict.pc = "score"
    /\ verdict' = [verdict EXCEPT !.pc = "printed",
                        !.place = "run_drift_check",
                        !.printed = RunDriftCheckVerdict(verdict.psi)]
    /\ UNCHANGED <<psiVars, clsVars, logf, flow, con, prod, extVars>>

NextVerdict == RunRootFlow \/ RunPsiCheck \/ RunDriftCheck

InitVerdictRun ==
    /\ InitIdleExt
    /\ InitIdlePsi /\ InitIdleClassifier
    /\ InitIdleLog /\ InitIdleFlow /\ InitIdleConsumer /\ InitIdleProducer
    /\ InitVerdict

SpecVerdict == InitVerdictRun /\ [][NextVerdict]_vars

----------------------------------------------------------------------------
(* DriftDataConsumer.start_consuming, start_background_consuming and       *)
(* stop_consuming: the consuming thread and a caller that starts and stops *)

MaxFeed == 2
MaxStartCalls == 2
MaxStopCalls == 2

\* what `for message in self.consumer` can do next: hand over a message,
\* end (consumer_timeout_ms elapsed, or the consumer is closed), or raise.
\* A closed KafkaConsumer hands over nothing.
NextOutcomesIgnoringClose(closed, feed) ==
    IF feed > 0 THEN {"message", "exhausted", "raise"}
    ELSE {"exhausted", "raise"}

NextOutcomes(closed, feed) ==
    IF ~closed /\ feed > 0 THEN {"message", "exhausted", "raise"}
    ELSE {"exhausted", "raise"}

\* a loop whose except clause is the last thing that runs
AfterLoopNoFinally(cause) ==
    IF cause = "exception" THEN "done" ELSE "finally"

\* try / except Exception / finally: self.stop_consuming() -- whatever ends
\* the loop, the finally clause runs next
AfterLoop(cause) == "finally"

\* self.processing_thread and self.processing_thread.is_alive()
ThreadAlive(pc) == pc \notin {"none", "done"}

\* the end of the loop of start_consuming
LeaveLoop(l, cause) == [l EXCEPT !.thread = AfterLoop(cause), !.exit = cause,
                                 !.alive = IF AfterLoop(cause) = "done"
                                           THEN @ - 1 ELSE @]

\* start_consuming: self.running = True
ThreadSetRunning ==
    /\ life.thread = "spawned"
    /\ life' = [life EXCEPT !.running = TRUE, !.thread = "next"]
    /\ UNCHANGED <<psiVars, clsVars, sysVars, kflow, retrain, reg, writers>>

\* for message in self.consumer
ThreadNext ==
    /\ life.thread = "next"
    /\ \E o \in NextOutcomes(life.closed, life.feed) :
        life' = CASE o = "message" ->
                        [life EXCEPT !.thread = "check", !.feed = @ - 1]
                  [] o = "exhausted" -> LeaveLoop(life, "exhausted")
                  [] o = "raise" -> LeaveLoop(life, "exception")
    /\ UNCHANGED <<psiVars, clsVars, sysVars, kflow, retrain, reg, writers>>

\* if not self.running: break
ThreadCheckRunning ==
    /\ life.thread = "check"
    /\ life' = IF ~life.running THEN LeaveLoop(life, "break")
               ELSE [life EXCEPT !.thread = "process"]
    /\ UNCHANGED <<psiVars, clsVars, sysVars, kflow, retrain, reg, writers>>

\* self._process_message(message), which never raises, then the lag
\* metric, whose calls to the broker can raise
ThreadProcess ==
    /\ life.thread = "process"
    /\ \E o \in {"ok", "raise"} :
        LET l == [life EXCEPT !.processed = @ + 1,
                              !.afterStop = IF life.stopReturned THEN @ + 1
                                            ELSE @]
        IN  life' = IF o = "ok" THEN [l EXCEPT !.thread = "next"]
                    ELSE LeaveLoop(l, "exception")
    /\ UNCHANGED <<psiVars, clsVars, sysVars, kflow, retrain, reg, writers>>

\* finally: self.stop_consuming() -- self.running = False
ThreadFinallyFlag ==
    /\ life.thread = "finally"
    /\ life' = [life EXCEPT !.running = FALSE, !.thread = "finally_close"]
    /\ UNCHANGED <<psiVars, clsVars, sysVars, kflow, retrain, reg, writers>>

\* ... if self.consumer: self.consumer.close(); start_consuming returns
ThreadFinallyClose ==
    /\ life.thread = "finally_close"
    /\ life' = [life EXCEPT !.closed = TRUE, !.thread = "done",
                            !.alive = @ - 1]
    /\ UNCHANGED <<psiVars, clsVars, sysVars, kflow, retrain, reg, writers>>

ThreadStep ==
    \/ ThreadSetRunning
    \/ ThreadNext
    \/ ThreadCheckRunning
    \/ ThreadProcess
    \/ ThreadFinallyFlag
    \/ ThreadFinallyClose

\* start_background_consuming: nothing while the thread is alive, otherwise
\* a new thread running start_consuming
StartBackground ==
    /\ life.main = "idle"
    /\ life.startCalls < MaxStartCalls
    /\ life' = IF ThreadAlive(life.thread)
               THEN [life EXCEPT !.startCalls = @ + 1, !.refused = @ + 1]
               ELSE [life EXCEPT !.startCalls = @ + 1, !.starts = @ + 1,
                                 !.alive = @ + 1, !.thread = "spawned",
                                 !.exit = "none"]
    /\ UNCHANGED <<psiVars, clsVars, sysVars, kflow, retrain, reg, writers>>

\* stop_consuming called by the owner: self.running = False
StopFlag ==
    /\ life.main = "idle"
    /\ life.stopCalls < MaxStopCalls
    /\ life' = [life EXCEPT !.running = FALSE, !.main = "stopping"]
    /\ UNCHANGED <<psiVars, clsVars, sysVars, kflow, retrain, reg, writers>>

\* ... if self.consumer: self.consumer.close(); stop_consuming returns
StopClose ==
    /\ life.main = "stopping"
    /\ life' = [life EXCEPT !.closed = TRUE, !.main = "idle",
                            !.stopCalls = @ + 1, !.stopReturned = TRUE,
                            !.stopsAfterExit =
                                IF life.thread = "done" THEN @ + 1 ELSE @]
    /\ UNCHANGED <<psiVars, clsVars, sysVars, kflow, retrain, reg, writers>>

NextLife == ThreadStep \/ StartBackground \/ StopFlag \/ StopClose

InitLifeRun ==
    /\ InitIdlePsi /\ InitIdleClassifier
    /\ InitIdleLog /\ InitIdleFlow /\ InitIdleConsumer /\ InitIdleProducer
    /\ InitIdleVerdict
    /\ life = [running |-> FALSE, closed |-> FALSE, thread |-> "none",
               exit |-> "none", feed |-> MaxFeed, processed |-> 0,
               afterStop |-> 0, alive |-> 0, starts |-> 0, startCalls |-> 0,
               refused |-> 0, main |-> "idle", stopCalls |-> 0,
               stopsAfterExit |-> 0, stopReturned |-> FALSE]
    /\ kflow = Idle /\ retrain = Idle /\ reg = Idle /\ writers = Idle

SpecLife == InitLifeRun /\ [][NextLife]_vars

\* the scheduler lets the consuming thread run
SpecLifeLive == InitLifeRun /\ [][NextLife]_vars /\ WF_vars(ThreadStep)

----------------------------------------------------------------------------
(* One run of flows/kafka_drift_detection_flow.kafka_drift_detection_flow  *)

MaxSamples == 6

\* a step of the flow returns or raises
StepOutcomes == {"ok", "raise"}

\* except Exception as e: logger.error(...); raise -- the handler of the
\* flow closes nothing
FlowExcept(k, step) == [k EXCEPT !.pc = "raised", !.failedAt = step]

\* if enable_prometheus: start_http_server(...), outside the try
KafkaStartMetrics ==
    /\ kflow.pc = "prometheus"
    /\ \E o \in StepOutcomes :
        kflow' = IF kflow.prometheus /\ o = "raise"
                 THEN [kflow EXCEPT !.pc = "raised", !.failedAt = "prometheus"]
                 ELSE [kflow EXCEPT !.pc = "setup"]
    /\ UNCHANGED <<psiVars, clsVars, sysVars, life, retrain, reg, writers>>

\* producer, consumer = setup_kafka_infrastructure(): both constructors
\* connect to the broker
KafkaSetup ==
    /\ kflow.pc = "setup"
    /\ \E o \in {"ok", "producer_raises", "consumer_raises"} :
        kflow' = CASE o = "ok" ->
                        [kflow EXCEPT !.pc = "send", !.producerOpen = TRUE,
                                      !.consumerOpen = TRUE]
                   [] o = "producer_raises" -> FlowExcept(kflow, "setup")
                   [] o = "consumer_raises" ->
                        [FlowExcept(kflow, "setup") EXCEPT
                            !.producerOpen = TRUE]
    /\ UNCHANGED <<psiVars, clsVars, sysVars, life, retrain, reg, writers>>

\* sent_count, total_count = generate_and_send_test_data(producer, n): two
\* batches of n // 2 rows
KafkaSendTestData ==
    /\ kflow.pc = "send"
    /\ \E o \in StepOutcomes :
        IF o = "raise" THEN kflow' = FlowExcept(kflow, "send")
        ELSE LET total == 2 * (kflow.samples \div 2)
             IN \E sent \in 0..total :
                    kflow' = [kflow EXCEPT !.pc = "detect", !.sent = sent,
                                           !.total = total]
    /\ UNCHANGED <<psiVars, clsVars, sysVars, life, retrain, reg, writers>>

\* run_real_time_drift_detection: start_background_consuming(), then
\* try: the monitoring loop; finally: consumer.stop_consuming()
KafkaDetect ==
    /\ kflow.pc = "detect"
    /\ \E o \in {"ok", "raise_before_try", "raise_in_try", "raise_after"} :
        kflow' = CASE o = "ok" ->
                        [kflow EXCEPT !.pc = "status",
                                      !.consumerStopped = TRUE]
                   [] o = "raise_before_try" -> FlowExcept(kflow, "detect")
                   [] o \in {"raise_in_try", "raise_after"} ->
                        [FlowExcept(kflow, "detect") EXCEPT
                            !.consumerStopped = TRUE]
    /\ UNCHANGED <<psiVars, clsVars, sysVars, life, retrain, reg, writers>>

\* final_status = consumer.get_status()
KafkaFinalStatus ==
    /\ kflow.pc = "status"
    /\ \E o \in StepOutcomes :
        kflow' = IF o = "raise" THEN FlowExcept(kflow, "status")
                 ELSE [kflow EXCEPT !.pc = "cleanup"]
    /\ UNCHANGED <<psiVars, clsVars, sysVars, life, retrain, reg, writers>>

\* cleanup_kafka_connections: try: producer.close(); consumer.
\* stop_consuming() except Exception: logged -- reached on the normal path
\* only
KafkaCleanup ==
    /\ kflow.pc = "cleanup"
    /\ \E o \in StepOutcomes :
        kflow' = IF o = "raise"
                 THEN [kflow EXCEPT !.pc = "done"]
                 ELSE [kflow EXCEPT !.pc = "done", !.producerClosed = TRUE,
                                    !.consumerStopped = TRUE]
    /\ UNCHANGED <<psiVars, clsVars, sysVars, life, retrain, reg, writers>>

NextKafkaFlow ==
    \/ KafkaStartMetrics
    \/ KafkaSetup
    \/ KafkaSendTestData
    \/ KafkaDetect
    \/ KafkaFinalStatus
    \/ KafkaCleanup

InitKafkaFlowRun ==
    /\ InitIdlePsi /\ InitIdleClassifier
    /\ InitIdleLog /\ InitIdleFlow /\ InitIdleConsumer /\ InitIdleProducer
    /\ InitIdleVerdict
    /\ \E n \in 0..MaxSamples : \E prom \in BOOLEAN :
           kflow = [pc |-> "prometheus", samples |-> n, prometheus |-> prom,
                    sent |-> 0, total |-> 0, producerOpen |-> FALSE,
                    consumerOpen |-> FALSE, producerClosed |-> FALSE,
                    consumerStopped |-> FALSE, failedAt |-> "none"]
    /\ life = Idle /\ retrain = Idle /\ reg = Idle /\ writers = Idle

SpecKafkaFlow == InitKafkaFlowRun /\ [][NextKafkaFlow]_vars

----------------------------------------------------------------------------
(* One run of pipelines/kafka_ml_pipeline.model_retraining_pipeline_flow   *)

\* DriftDataConsumer.get_status(): the five keys it reports
GetStatus(running, count, window, checked, refsize) ==
    [running |-> running, message_count |-> count, window_size |-> window,
     last_drift_check |-> checked, reference_data_size |-> refsize]

\* dict.get(key, default)
DictGet(d, key, default) == IF key \in DOMAIN d THEN d[key] ELSE default

\* the synthetic reference data of a consumer without data/batch_normal.csv
SyntheticReferenceSize == 1000

\* if status.get('last_psi_score', 0) > retrain_threshold
RetrainNeeded(st, lastPsi, threshold) ==
    DictGet(st, "last_psi_score", 0) > threshold

\* consumer = DriftDataConsumer(...): a new consumer, which has processed
\* nothing; status = consumer.get_status()
RetrainGetStatus ==
    /\ retrain.pc = "consumer"
    /\ \E o \in StepOutcomes :
        retrain' =
            IF o = "raise"
            THEN [retrain EXCEPT !.pc = "raised", !.failedAt = "consumer"]
            ELSE [retrain EXCEPT
                    !.pc = "decide",
                    !.status = GetStatus(FALSE, 0, 0, "now",
                                         SyntheticReferenceSize)]
    /\ UNCHANGED <<psiVars, clsVars, sysVars, life, kflow, reg, writers>>

\* the test on last_psi_score; without retraining the flow returns
RetrainDecide ==
    /\ retrain.pc = "decide"
    /\ retrain' =
        IF RetrainNeeded(retrain.status, retrain.lastPsi, retrain.threshold)
        THEN [retrain EXCEPT !.pc = "train"]
        ELSE [retrain EXCEPT !.pc = "returned", !.retrained = FALSE]
    /\ UNCHANGED <<psiVars, clsVars, sysVars, life, kflow, reg, writers>>

\* load_and_prepare_data, train_ml_model, return {"retrained": True, ...}
RetrainTrain ==
    /\ retrain.pc = "train"
    /\ \E o \in StepOutcomes :
        retrain' =
            IF o = "raise"
            THEN [retrain EXCEPT !.pc = "raised", !.failedAt = "train"]
            ELSE [retrain EXCEPT !.pc = "returned", !.retrained = TRUE]
    /\ UNCHANGED <<psiVars, clsVars, sysVars, life, kflow, reg, writers>>

NextRetrain == RetrainGetStatus \/ RetrainDecide \/ RetrainTrain

\* lastPsi is the PSI score the drift consumer computed most recently
InitRetrainRun ==
    /\ InitIdlePsi /\ InitIdleClassifier
    /\ InitIdleLog /\ InitIdleFlow /\ InitIdleConsumer /\ InitIdleProducer
    /\ InitIdleVerdict
    \* retrain_threshold: the default 0.1, and values around it
    /\ \E t \in {0 - PossibleThreshold, 0, PossibleThreshold,
                 LikelyThreshold} : \E p \in ScoreInputs :
           retrain = [pc |-> "consumer", threshold |-> t, lastPsi |-> p,
                      status |-> << >>, retrained |-> FALSE,
                      failedAt |-> "none"]
    /\ life = Idle /\ kflow = Idle /\ reg = Idle /\ writers = Idle

SpecRetrain == InitRetrainRun /\ [][NextRetrain]_vars

----------------------------------------------------------------------------
(* Two log_psi_result calls on the same log path at the same time: the     *)
(* consumer thread (src/utils/logger) and a flow run                       *)
(* (flows/psi_drift_detection_flow)                                        *)

MaxPriorRows == 1

Writers == {"consumer", "flow"}

\* what a call writes once it has looked for the file: os.path.exists was
\* False -> to_csv(LOG_PATH), which creates or truncates the file and
\* writes header and row; True -> to_csv(mode='a', header=False)
WriteAfterCheck(sawFile, file, row) ==
    IF ~sawFile
    THEN [exists |-> TRUE, lines |-> <<Header, row>>]
    ELSE [exists |-> TRUE, lines |-> Append(file.lines, row)]

\* the log before the two calls: absent, or a header and earlier rows
PriorFiles ==
    {NoFile}
    \cup {[exists |-> TRUE,
           lines |-> <<Header>> \o [i \in 1..k |-> NewRow("earlier", 0, "No Drift")]] :
            k \in 0..MaxPriorRows}

\* if not os.path.exists(LOG_PATH)
WriterCheck ==
    /\ \E w \in Writers :
        /\ writers.pc[w] = "check"
        /\ writers' = [writers EXCEPT !.pc[w] = "write",
                                      !.sawFile[w] = writers.file.exists]
    /\ UNCHANGED <<psiVars, clsVars, sysVars, life, kflow, retrain, reg>>

\* new_row.to_csv(...)
WriterWrite ==
    /\ \E w \in Writers :
        /\ writers.pc[w] = "write"
        /\ \E psi4 \in Round4(writers.psi[w]) :
            writers' = [writers EXCEPT
                !.pc[w] = "done",
                !.order = Append(@, w),
                !.file = WriteAfterCheck(writers.sawFile[w], @,
                            NewRow(w, psi4, GetDriftStatus(writers.psi[w])))]
    /\ UNCHANGED <<psiVars, clsVars, sysVars, life, kflow, retrain, reg>>

NextWriters == WriterCheck \/ WriterWrite

InitWritersRun ==
    /\ InitIdlePsi /\ InitIdleClassifier
    /\ InitIdleLog /\ InitIdleFlow /\ InitIdleConsumer /\ InitIdleProducer
    /\ InitIdleVerdict
    \* psi: the scores the two callers log
    /\ \E f \in PriorFiles :
       \E ps \in [Writers -> {0, PossibleThreshold, LikelyThreshold}] :
           writers = [file |-> f, prior |-> f.lines,
                      pc |-> [w \in Writers |-> "check"],
                      psi |-> ps,
                      sawFile |-> [w \in Writers |-> FALSE],
                      order |-> << >>]
    /\ life = Idle /\ kflow = Idle /\ retrain = Idle /\ reg = Idle

SpecWriters == InitWritersRun /\ [][NextWriters]_vars

----------------------------------------------------------------------------
(* ModelRegistry.register_model, called several times for one model name   *)

MaxRegisterCalls == 4

\* versions are "major.minor.patch", kept as <<major, minor, patch>>

\* key=lambda v: [int(x) for x in v.split('.')]: lists compare item by item
VersionLess(a, b) ==
    \/ a[1] < b[1]
    \/ a[1] = b[1] /\ a[2] < b[2]
    \/ a[1] = b[1] /\ a[2] = b[2] /\ a[3] < b[3]

\* _get_model_versions: the versions that have a file in metadata/
GetModelVersions(r) == DOMAIN r.metadata

\* _generate_version: "1.0.0" without versions, otherwise the patch number
\* of the latest one incremented
GenerateVersion(versions) ==
    IF versions = {} THEN <<1, 0, 0>>
    ELSE LET latest == CHOOSE v \in versions :
                            \A w \in versions : ~VersionLess(v, w)
         IN <<latest[1], latest[2], latest[3] + 1>>

\* open(path, 'wb' / 'w') and the dump: the file of that name is created
\* or replaced by the one of this call
WriteFile(files, version, call) ==
    [v \in DOMAIN files \cup {version} |->
        IF v = version THEN call ELSE files[v]]

\* one register_model call: version, artifact file, MLflow run, metadata
\* file, Kafka event (whose failure is swallowed); an exception is logged
\* and raised again, the files written so far stay
RegisterModel ==
    /\ Len(reg.results) < MaxRegisterCalls
    \* the call returns, or pickle.dump, the MLflow logging or the json.dump
    \* of the metadata raises
    /\ \E o \in {"ok", "artifact_raises", "mlflow_raises",
                 "metadata_raises"} :
        LET call == Len(reg.results) + 1
            version == GenerateVersion(GetModelVersions(reg))
            hitA == IF version \in DOMAIN reg.artifacts
                    THEN {<<"artifact", version, reg.artifacts[version]>>}
                    ELSE {}
            hitM == IF version \in DOMAIN reg.metadata
                    THEN {<<"metadata", version, reg.metadata[version]>>}
                    ELSE {}
            done == [call |-> call, version |-> version, outcome |-> o]
            \* every outcome opens the artifact file
            r1 == [reg EXCEPT
                    !.artifacts = WriteFile(@, version, call),
                    !.overwritten = @ \cup hitA,
                    !.results = Append(@, done)]
        IN  reg' = IF o \in {"artifact_raises", "mlflow_raises"} THEN r1
                   ELSE [r1 EXCEPT
                            !.metadata = WriteFile(@, version, call),
                            !.overwritten = @ \cup hitM]
    /\ UNCHANGED <<psiVars, clsVars, sysVars, life, kflow, retrain, writers>>

NextRegistry == RegisterModel

\* artifacts and metadata map a version to the call whose file is on disk;
\* results lists what each call did
InitRegistryRun ==
    /\ InitIdlePsi /\ InitIdleClassifier
    /\ InitIdleLog /\ InitIdleFlow /\ InitIdleConsumer /\ InitIdleProducer
    /\ InitIdleVerdict
    /\ reg = [artifacts |-> << >>, metadata |-> << >>, results |-> << >>,
              overwritten |-> {}]
    /\ life = Idle /\ kflow = Idle /\ retrain = Idle /\ writers = Idle

SpecRegistry == InitRegistryRun /\ [][NextRegistry]_vars

----------------------------------------------------------------------------
(* Vocabulary of the properties *)

Tiers == <<"No Drift", "Possible Drift", "Likely Drift">>

TierRank(t) == CHOOSE i \in 1..3 : Tiers[i] = t

Called == variant \in {"detection", "flow", "quantile", "qcut"}

NonEmptyInputs == Len(ref) > 0 /\ Len(cur) > 0

\* the value ranges of the two samples do not overlap
DisjointRanges ==
    /\ NonEmptyInputs
    /\ \/ SeqMax(ref) < SeqMin(cur)
       \/ SeqMax(cur) < SeqMin(ref)

StrictlyIncreasing(s) == \A i \in 1..(Len(s) - 1) : s[i] < s[i + 1]

----------------------------------------------------------------------------
(* C1: get_drift_status gives every score exactly one tier, "No Drift"     *)
(* below 0.10, "Possible Drift" from 0.10 (included) up to 0.25 (excluded) *)
(* and "Likely Drift" from 0.25 (included); the tier never decreases as    *)
(* the score grows.                                                        *)
C1_TierBoundaries ==
    /\ score # NoScore =>
         /\ tier \in {"No Drift", "Possible Drift", "Likely Drift"}
         /\ (tier = "No Drift") <=> (score < 100000)
         /\ (tier = "Possible Drift") <=> (100000 <= score /\ score < 250000)
         /\ (tier = "Likely Drift") <=> (250000 <= score)
    /\ (prevScore # NoScore /\ prevScore <= score) =>
         TierRank(prevTier) <= TierRank(tier)

C1_Witness ==
    /\ prevScore = 100000 /\ prevTier = "Possible Drift"
    /\ score = 250000 /\ tier = "Likely Drift"

(* C2: calculate_psi raises, and returns nothing, when the reference or    *)
(* the current sample is empty, in the flow's calculate_psi and in         *)
(* src.detection.psi.calculate_psi.                                        *)
C2_EmptyInputRaises ==
    (variant \in {"flow", "detection"} /\ ~NonEmptyInputs) => res.kind = "error"

(* C3: for a non-empty sample A and a bucket count >= 1,                  *)
(* calculate_psi(A, A, bucket_count) is 0 within 1e-6, reference and       *)
(* current having the same count in every bucket.                          *)
C3_IdenticalSamplesScoreZero ==
    (variant \in {"detection", "flow", "quantile"}
        /\ Len(ref) > 0 /\ cur = ref /\ bins >= 1) =>
      /\ res.kind = "value"
      /\ res.refHist = res.curHist
      /\ res.psi \in (0 - 1)..1

C3_Witness ==
    /\ variant = "detection"
    /\ cur = ref /\ Len(ref) = 2 /\ ref[1] # ref[2] /\ bins = 2
    /\ res.kind = "value" /\ res.psi = 0 /\ res.curHist = <<1, 1>>

(* C4: for non-empty samples with disjoint value ranges every              *)
(* calculate_psi variant returns a score above 0.25, which classifies as   *)
(* "Likely Drift".                                                         *)
C4_DisjointRangesLikelyDrift ==
    (Called /\ DisjointRanges /\ bins >= 1 /\ res.kind = "value") =>
      /\ res.psi > 250000
      /\ status # "none" => status = "Likely Drift"

(* C5: for non-empty samples and a bucket count >= 1 the score             *)
(* calculate_psi returns is >= 0, and so is every per-bucket term.         *)
C5_ScoreNonNegative ==
    (Called /\ NonEmptyInputs /\ bins >= 1) =>
      /\ variant # "qcut" => res.kind = "value"
      /\ res.kind = "value" =>
           /\ res.psi >= 0
           /\ \A i \in DOMAIN res.terms : res.terms[i] >= 0

C5_Witness ==
    /\ variant = "flow" /\ NonEmptyInputs /\ bins = 2
    /\ res.kind = "value" /\ res.psi > 0 /\ res.psi < 250000
    /\ \A i \in DOMAIN res.terms : res.terms[i] > 0

(* C6: every observation of the current sample is counted in some bucket,  *)
(* one below the reference minimum in the first bucket and one above the   *)
(* reference maximum in the last; none is dropped.                         *)
C6_CurrentObservationsClamped ==
    (variant \in {"detection", "flow", "quantile"}
        /\ NonEmptyInputs /\ bins >= 1 /\ Len(res.curHist) > 0) =>
      /\ SumSeq(res.curHist) = Len(cur)
      /\ res.curHist[1] >=
           Cardinality({j \in DOMAIN cur : cur[j] < SeqMin(ref)})
      /\ res.curHist[Len(res.curHist)] >=
           Cardinality({j \in DOMAIN cur : cur[j] > SeqMax(ref)})

(* C7: for non-empty samples the bucket counts of the reference add up to  *)
(* the length of the reference and those of the current sample to the      *)
(* length of the current sample, so that each sample's proportions sum     *)
(* to 1.                                                                   *)
C7_ProportionsSumToOne ==
    (variant \in {"detection", "flow"} /\ NonEmptyInputs /\ bins >= 1) =>
      /\ SumSeq(res.refHist) = Len(ref)
      /\ SumSeq(res.curHist) = Len(cur)

(* C8: with a bucket count below 1 calculate_psi raises and returns no     *)
(* score, in every binning variant.                                        *)
C8_NonPositiveBucketCountRaises ==
    (variant \in {"detection", "flow", "quantile"}
        /\ NonEmptyInputs /\ bins < 1) =>
      res.kind = "error"

(* C9: in the quantile variant the deduplicated bucket edges of a          *)
(* non-empty reference are strictly increasing, and the number of          *)
(* effective buckets, edges - 1, is at most the requested bucket count.    *)
C9_QuantileEdgesStrictlyIncreasing ==
    (variant = "quantile" /\ Len(ref) > 0 /\ res.kind # "error") =>
      /\ StrictlyIncreasing(res.edges)
      /\ Len(res.edges) - 1 <= bins

C9_Witness ==
    /\ variant = "quantile" /\ bins = 2 /\ Len(ref) = 3
    /\ res.kind = "value"
    /\ Len(res.edges) = 2 /\ res.edges[1] < res.edges[2]

(* C10: in the quantile variant the degraded-binning warning is printed    *)
(* exactly when deduplication leaves fewer buckets than requested, the     *)
(* call then still returns a score, and that score still reflects the      *)
(* difference between the samples: it is above 0 for samples whose value   *)
(* ranges are disjoint.                                                    *)
C10_DegradedBinningStillScores ==
    (variant = "quantile" /\ NonEmptyInputs /\ bins >= 1) =>
      /\ res.warned <=> (Len(res.edges) - 1 < bins)
      /\ res.kind = "value"
      /\ (res.warned /\ DisjointRanges) => res.psi > 0

----------------------------------------------------------------------------
(* C14: starting from no log file, after N log_psi_result calls made one   *)
(* after the other the log holds one header line (timestamp, psi_score,    *)
(* drift_status) followed by exactly N rows in call order; row i carries   *)
(* the score of call i rounded to 4 decimals and the tier computed for it  *)
(* at write time.  Every row written earlier is therefore still in place,  *)
(* unmodified, after each later call.                                      *)
C14_LogRoundTrip ==
    LET n == Len(logf.calls)
        lines == logf.file.lines
    IN  /\ logf.file.exists <=> n > 0
        /\ n = 0 => lines = << >>
        /\ n > 0 =>
            /\ Len(lines) = n + 1
            /\ lines[1].kind = "header"
            /\ <<lines[1].timestamp, lines[1].psi_score,
                 lines[1].drift_status>>
                 = <<"timestamp", "psi_score", "drift_status">>
            /\ \A i \in 1..n :
                /\ lines[i + 1].kind = "row"
                /\ lines[i + 1].timestamp = i
                /\ lines[i + 1].psi_score % RoundUnit = 0
                /\ 2 * (lines[i + 1].psi_score - logf.calls[i].psi)
                     \in (0 - RoundUnit)..RoundUnit
                /\ lines[i + 1].drift_status = logf.calls[i].status
                /\ lines[i + 1].drift_status
                     = GetDriftStatus(logf.calls[i].psi)

\* the log after the last call, rounding having changed a score
C14_Witness ==
    /\ Len(logf.calls) = MaxLogCalls
    /\ Len(logf.file.lines) = MaxLogCalls + 1
    /\ \E i \in 1..MaxLogCalls :
        logf.file.lines[i + 1].psi_score # logf.calls[i].psi

----------------------------------------------------------------------------
(* C11: when a run of psi_drift_detection_flow has ended, the record was   *)
(* appended exactly once, and the alert was posted exactly once if the     *)
(* tier is not "No Drift" and not at all if it is "No Drift".              *)
C11_OneRecordOneAlert ==
    flow.pc \in {"done", "aborted"} =>
        /\ Len(logf.calls) = 1
        /\ Len(logf.file.lines) = 2
        /\ flow.posts = IF flow.status = "No Drift" THEN 0 ELSE 1

(* C12: in psi_drift_detection_flow the alert is posted only after the     *)
(* record was appended, and send_slack_alert returns normally whatever the *)
(* transport does (HTTP error status, exception): the run ends normally    *)
(* with the record in the log, and no exception of the notifier leaves it. *)
C12_NotifierFailureContained ==
    /\ flow.posts > 0 =>
        /\ Len(logf.calls) = 1
        /\ Len(logf.file.lines) = 2
        /\ flow.pc = "done"
    /\ flow.raised # "send_slack_alert"
    /\ flow.posts <= 1

\* a run in which the transport failed
C12_Witness ==
    /\ flow.pc = "done"
    /\ flow.posts = 1
    /\ flow.transport \in {"http_error", "exception"}
    /\ flow.printed \in {"Slack error", "Slack alert failed"}
    /\ Len(logf.file.lines) = 2

(* C13: when log_psi_result raises while writing the log, the run of       *)
(* psi_drift_detection_flow is not aborted and the exception does not      *)
(* reach the caller: the run goes on to emit the metric and, when the tier *)
(* is not "No Drift", to post the alert.                                   *)
C13_PersistenceFailureContained ==
    /\ flow.raised # "log_psi_result"
    /\ flow.pc \in {"done", "aborted"} =>
        /\ flow.pc = "done"
        /\ flow.metric
        /\ flow.status # "No Drift" => flow.posts = 1

----------------------------------------------------------------------------
(* C15: after any sequence of appends the consumer's window holds          *)
(* min(number appended, window_size) observations, never more than         *)
(* window_size, and they are the most recent ones in arrival order: the    *)
(* oldest is evicted first.                                                *)
C15_WindowFifo ==
    LET n == Len(con.window)
    IN  /\ n <= con.windowSize
        /\ n = IF con.arrived < con.windowSize THEN con.arrived
               ELSE con.windowSize
        /\ \A i \in 1..n : con.window[i] = con.arrived - n + i

\* a full window from which observations were evicted
C15_Witness ==
    /\ con.windowSize > 1
    /\ con.arrived > con.windowSize + 1
    /\ Len(con.window) = con.windowSize

(* C16: every PSI computation of a drift check reads the copy of the       *)
(* window made before the first computation started: observations that     *)
(* another thread appends while the check is in progress change neither    *)
(* the copy nor the data a computation has read, and the copy holds at     *)
(* least the 100 observations the check requires.                          *)
C16_SnapshotBeforeCompute ==
    con.pc \in {"compute", "finish"} =>
        /\ con.snap = con.atSnap
        /\ Len(con.snap) >= MinSamples
        /\ con.col > 1 \/ con.pc = "finish" => con.used = con.atSnap

\* a check whose computations ran while the window was appended to
C16_Witness ==
    /\ con.pc = "finish"
    /\ con.window # con.atSnap
    /\ con.used = con.atSnap

----------------------------------------------------------------------------
(* C18: send_batch attempts every row of the batch, also after a row       *)
(* failed, and returns (success_count, total_count) where total_count is   *)
(* the number of rows, success_count is the number of rows for which       *)
(* send_data_point returned True and 0 <= success_count <= total_count;    *)
(* send_data_point returns True exactly when the producer is connected and *)
(* the broker acknowledged the row, and False in every other case.         *)
C18_SendBatchCounts ==
    LET n == Len(prod.results)
    IN  /\ n = prod.idx
        /\ \A i \in 1..n :
            prod.results[i] <=> (prod.connected /\ prod.rows[i] = "ack")
        /\ prod.pc \in {"loop", "done"} =>
            /\ prod.total = Len(prod.rows)
            /\ prod.success = Cardinality({i \in 1..n : prod.results[i]})
            /\ 0 <= prod.success /\ prod.success <= prod.total
        /\ prod.pc = "done" =>
            /\ n = Len(prod.rows)
            /\ prod.returned = <<prod.success, prod.total>>

\* a batch in which a row was sent and acknowledged after an earlier row
\* had failed, and the last row timed out waiting for the acknowledgement
C18_Witness ==
    /\ prod.pc = "done"
    /\ prod.connected
    /\ \E i, j \in 1..Len(prod.rows) :
        /\ i < j
        /\ ~prod.results[i]
        /\ prod.results[j]
    /\ Len(prod.rows) > 0
    /\ prod.rows[Len(prod.rows)] = "get_raises"
    /\ prod.returned[1] < prod.returned[2]

\* printed verdicts as levels: none, moderate, significant
VerdictLevel(v) ==
    CASE v = "No significant drift" -> 0
      [] v = "Moderate" -> 1
      [] v \in {"Significant", "Drift detected"} -> 2

(* C20: the verdict the root psi_drift_detection_flow, run_psi_check and   *)
(* run_drift_check print for a score agrees with get_drift_status: none    *)
(* for "No Drift", drift for the other tiers, and where the script has     *)
(* three verdicts, moderate for "Possible Drift" and significant for       *)
(* "Likely Drift"; so 0.10 is reported as drift and 0.25 as significant.   *)
C20_VerdictsAgree ==
    verdict.pc = "printed" =>
        LET t == TierRank(GetDriftStatus(verdict.psi)) - 1
            l == VerdictLevel(verdict.printed)
        IN  IF verdict.place = "run_drift_check"
            THEN l > 0 <=> t > 0
            ELSE l = t

----------------------------------------------------------------------------
\* the bucket counts of the current sample under the edges the call used
CountsUnderEdges == HistogramCounts(cur, res.edges, res.scale)

\* every observation of the current sample has the same value
ConstantCurrent == \A i, j \in DOMAIN cur : cur[i] = cur[j]

(* C21: in every calculate_psi variant the bucket edges come from the      *)
(* reference sample alone and those edges bucket the current sample: the   *)
(* equal-width variants use the edges of the reference's histogram, the    *)
(* quantile variant the deduplicated percentiles of the reference, and in  *)
(* each variant the bucket of a current observation is decided by its      *)
(* value, so observations of the same value are counted in one bucket.     *)
C21_EdgesFromReferenceOnly ==
    Called /\ res.kind = "value" =>
        /\ variant \in {"detection", "flow"} =>
            /\ res.edges = UniformEdges(ref, bins)
            /\ res.curHist = CountsUnderEdges
        /\ variant = "quantile" =>
            /\ res.edges = Unique(Percentiles(ref, bins))
            /\ res.curHist = CountsUnderEdges
        /\ ConstantCurrent =>
            Cardinality({i \in DOMAIN res.curHist : res.curHist[i] > 0}) <= 1

----------------------------------------------------------------------------
(* C22: when start_consuming has returned -- the iterator ended, the       *)
(* running flag was cleared or an exception was raised inside the loop --  *)
(* stop_consuming has run: running is False and the Kafka consumer is      *)
(* closed; a stop_consuming call made after that leaves both as they are.  *)
C22_CleanupOnEveryExit ==
    life.thread = "done" =>
        /\ life.exit \in {"exhausted", "break", "exception"}
        /\ ~life.running
        /\ life.closed

\* start_consuming left through an exception, stop_consuming called again
C22_Witness ==
    /\ life.thread = "done"
    /\ life.exit = "exception"
    /\ life.processed > 0
    /\ life.stopsAfterExit > 0
    /\ life.main = "idle"
    /\ ~life.running
    /\ life.closed

(* C29: in every interleaving of the caller with the consuming thread, at  *)
(* most one thread is alive (a start_background_consuming call made while  *)
(* the thread is alive starts none), at most one message is processed      *)
(* after a stop_consuming call has returned, and once stop_consuming has   *)
(* returned a thread that was started terminates, leaving running False.   *)
C29_StopTerminatesThread ==
    /\ [](life.alive <= 1)
    /\ [](life.afterStop <= 1)
    /\ [](life.refused > 0 => life.starts < life.startCalls)
    /\ (life.stopReturned /\ life.starts > 0)
            ~> (life.thread = "done" /\ ~life.running)

\* stop_consuming returned before the thread ran its first statement, the
\* thread then set running and ended on the closed consumer
C29_Witness ==
    /\ life.stopReturned
    /\ life.thread = "done"
    /\ life.exit \in {"exhausted", "exception"}
    /\ life.processed = 0
    /\ life.starts = 1
    /\ life.refused = 1
    /\ ~life.running

----------------------------------------------------------------------------
(* C23: when a step of kafka_drift_detection_flow after                    *)
(* setup_kafka_infrastructure raises (sending the test data, the           *)
(* real-time detection, reading the final status), the producer has been   *)
(* closed and the consumer stopped by the time the exception leaves the    *)
(* flow.                                                                   *)
C23_CleanupOnEveryExit ==
    kflow.pc = "raised" /\ kflow.failedAt \in {"send", "detect", "status"} =>
        /\ kflow.producerClosed
        /\ kflow.consumerStopped

----------------------------------------------------------------------------
(* C24: model_retraining_pipeline_flow returns retrained = True, having    *)
(* retrained the model, whenever the PSI score the drift consumer computed *)
(* most recently exceeds retrain_threshold, and retrained = False          *)
(* otherwise.                                                              *)
C24_RetrainsOnDrift ==
    retrain.pc = "returned" =>
        (retrain.retrained <=> retrain.lastPsi > retrain.threshold)

----------------------------------------------------------------------------
(* C25: every row written by src.utils.logger.log_psi_result is            *)
(* self-consistent: its drift_status is the tier get_drift_status gives to *)
(* the psi_score stored in the same row, the score rounded to 4 decimals.  *)
C25_RowSelfConsistent ==
    \A i \in 1..Len(logf.calls) :
        logf.calls[i].via = "logger" =>
            logf.file.lines[i + 1].drift_status
                = GetDriftStatus(logf.file.lines[i + 1].psi_score)

----------------------------------------------------------------------------
(* C26: when two log_psi_result calls run at the same time on one log      *)
(* path, then in every interleaving, once both have returned, the log      *)
(* holds exactly one header, the rows it held before, unchanged and in     *)
(* place, and one row for each of the two calls -- also when the log file  *)
(* did not exist at the start.                                             *)
C26_ConcurrentWritersKeepRows ==
    (\A w \in Writers : writers.pc[w] = "done") =>
        LET lines == writers.file.lines
            before == IF writers.prior = << >> THEN 1
                      ELSE Len(writers.prior)
        IN  /\ Cardinality({i \in DOMAIN lines : lines[i].kind = "header"})
                 = 1
            /\ lines[1].kind = "header"
            /\ Len(lines) = before + 2
            /\ \A i \in 2..before : lines[i] = writers.prior[i]
            /\ \A w \in Writers :
                \E i \in (before + 1)..Len(lines) : lines[i].timestamp = w

----------------------------------------------------------------------------
\* what get_status reports for the consumer
ConsumerStatus ==
    GetStatus(FALSE, con.messageCount, Len(con.window), "now",
              SyntheticReferenceSize)

(* C27: while the window holds fewer than 100 observations _check_drift    *)
(* computes no PSI, sets no metric and logs no record; the minimum is 100  *)
(* whatever min_samples is configured, so a consumer with window_size      *)
(* below 100 never produces an evaluation record.                          *)
C27_NoEvaluationBelowMinimum ==
    /\ Len(con.window) < MinSamples =>
        /\ con.pc \notin {"snapshot", "compute", "finish"}
        /\ con.checked \notin {"evaluated", "failed"}
        /\ con.gauge = NoScore
        /\ Len(logf.calls) = 0
        /\ ~logf.file.exists
    /\ con.windowSize < MinSamples => Len(con.window) < MinSamples

\* a consumer configured with a smaller min_samples whose window is full,
\* above that minimum and below 100, after a skipped check
C27_Witness ==
    /\ con.windowSize < MinSamples
    /\ con.minSamples < con.windowSize
    /\ Len(con.window) = con.windowSize
    /\ con.messageCount >= MinSamples
    /\ con.checked = "skipped"
    /\ Len(logf.calls) = 0

(* C28: after any sequence of _process_message calls -- also calls on      *)
(* malformed messages and calls whose drift check fails -- message_count   *)
(* is the number of messages _process_message appended to the window, the  *)
(* window length get_status reports is min(message_count, window_size),    *)
(* and every call has returned to the consuming loop.                      *)
C28_CountMatchesWindow ==
    /\ con.arrived = con.messageCount + con.others
    /\ con.pc \in {"recv", "check_len", "snapshot", "compute", "finish"}
    /\ ConsumerStatus.message_count = con.messageCount
    /\ con.others = 0 =>
        ConsumerStatus.window_size
            = IF con.messageCount < con.windowSize THEN con.messageCount
              ELSE con.windowSize

\* a malformed message after a drift check failed, the window having
\* evicted observations
C28_Witness ==
    /\ con.others = 0
    /\ con.everFailed
    /\ ~con.lastOk
    /\ con.pc = "recv"
    /\ con.messageCount > con.windowSize
    /\ con.windowSize >= MinSamples

----------------------------------------------------------------------------
(* C30: in any sequence of register_model calls for one model name, calls  *)
(* failing part-way included, every call that returns gets a version       *)
(* strictly greater than the versions of all earlier calls that returned,  *)
(* the first being 1.0.0 and each later one the patch number after, and no *)
(* call replaces an artifact or metadata file that an earlier call wrote.  *)
C30_VersionsIncreaseNoOverwrite ==
    LET ok == {i \in 1..Len(reg.results) : reg.results[i].outcome = "ok"}
    IN  /\ \A i, j \in ok :
            i < j => VersionLess(reg.results[i].version,
                                 reg.results[j].version)
        /\ \A i \in ok :
            reg.results[i].version[1] = 1 /\ reg.results[i].version[2] = 0
        /\ reg.overwritten = {}

====
